---------------------------- MODULE Spec2Model ----------------------------
(***************************************************************************)
(* A model of the S3 storage driver, registry/storage/driver/s3/s3.go:     *)
(* the resumable WriteStream built on a multipart upload with its          *)
(* background part-upload goroutine and buffer pool, the paginated         *)
(* recursive Delete, Stat, the paginated List and Move.                    *)
(*                                                                         *)
(* The bucket is strongly consistent here: a completed upload or a delete  *)
(* is visible to the next call.  Bytes are naturals, 0 is the zero byte.   *)
(* Keys and paths are sequences of one-character strings.                  *)
(***************************************************************************)
EXTENDS Naturals, Sequences, FiniteSets, TLC

(***************************************************************************)
(* Bounds.  ChunkSize stands for d.ChunkSize (s3.go:74, 243) and listMax   *)
(* for the list page size (s3.go:45), both scaled down.                    *)
(***************************************************************************)
ChunkSize == 2

listMax == 2

\* Largest length of the object that exists at the path before the call.
MaxCur == 3

\* Largest offset passed to WriteStream.
MaxOff == 5

\* Largest number of bytes the source reader holds.
MaxSrc == 5

VARIABLES
    \* the driver and the backend
    root,           \* d.RootDirectory
    bucket,         \* the bucket: a function from the keys present to their content
    multi,          \* the multipart session: "none", "open", "completed", "aborted"
    uploaded,       \* the parts stored in the session: part number -> data
    completeCalls,  \* number of multi.Complete calls issued
    abortCalls,     \* number of multi.Abort calls issued
    pool,           \* d.pool: the set of free buffers
    nextId,         \* identity of the next buffer pool.New allocates
    \* the WriteStream call: arguments
    offset,         \* offset
    src,            \* the bytes the reader holds
    srcPos,         \* number of bytes the reader has delivered so far
    \* the WriteStream call: locals
    pc,             \* position of the calling goroutine
    todo,           \* the statements of the chosen branch still to run
    partNumber,
    bytesRead,
    putErrChan,     \* "nil" or "chan"
    parts,
    buf,
    totalRead,      \* named result
    err,            \* named result
    currentLength,
    from,           \* fromReader's parameter
    total,          \* fromSmallCurrent's parameter
    current,        \* the unread rest of the stream ReadStream returned
    g,              \* the background upload goroutine
    releasing,      \* buffers of goroutines that only have their deferred putbuf left
    \* history
    bucket0,        \* the bucket when the call started
    faults,         \* the backend calls that failed
    srcFailed,      \* the reader returned an error other than io.EOF
    \* the Delete call
    dpc,            \* position of the Delete call
    dpath,          \* its path argument
    contents,       \* listResponse.Contents
    derr,           \* its result
    \* the Stat call
    spc,            \* position of the Stat call
    spath,          \* its path argument
    sres,           \* its result
    \* the List call
    lpc,            \* position of the List call
    lpath,          \* its path argument
    listResponse,   \* the page the last list call returned
    files,
    directories,
    lres,           \* its result
    \* the Move call
    mpc,            \* position of the Move call
    msrc,           \* sourcePath
    mdst,           \* destPath
    merr,           \* the error of its copy step
    \* history of the WriteStream call
    completeArg     \* the part lists passed to multi.Complete, in call order

backendVars == <<bucket, multi, uploaded, completeCalls, abortCalls>>

poolVars == <<pool, nextId>>

argVars == <<root, offset, src, bucket0>>

deleteVars == <<dpc, dpath, contents, derr>>

statVars == <<spc, spath, sres>>

listVars == <<lpc, lpath, listResponse, files, directories, lres>>

moveVars == <<mpc, msrc, mdst, merr>>

queryVars == <<statVars, listVars, moveVars>>

\* The locals and the history of the WriteStream call.
writeVars == <<srcPos, pc, todo, partNumber, bytesRead, putErrChan, parts, buf,
               totalRead, err, currentLength, from, total, current, g, releasing,
               srcFailed, completeArg>>

vars == <<root, bucket, multi, uploaded, completeCalls, abortCalls, pool, nextId,
          offset, src, srcPos, pc, todo, partNumber, bytesRead, putErrChan, parts,
          buf, totalRead, err, currentLength, from, total, current, g, releasing,
          bucket0, faults, srcFailed, dpc, dpath, contents, derr, spc, spath, sres,
          lpc, lpath, listResponse, files, directories, lres, mpc, msrc, mdst, merr,
          completeArg>>

(***************************************************************************)
(* Sequences and keys.                                                     *)
(***************************************************************************)
Min(a, b) == IF a < b THEN a ELSE b

Zeros(n) == [i \in 1..n |-> 0]

\* The first n bytes of the source: byte i is i, so no two positions agree.
SrcBytes(n) == [i \in 1..n |-> i]

\* The first n bytes of the object that exists before the call.
CurBytes(n) == [i \in 1..n |-> 10 + i]

RECURSIVE TrimRight(_, _)
TrimRight(s, c) ==
    IF s # <<>> /\ s[Len(s)] = c THEN TrimRight(SubSeq(s, 1, Len(s) - 1), c) ELSE s

RECURSIVE TrimLeft(_, _)
TrimLeft(s, c) ==
    IF s # <<>> /\ s[1] = c THEN TrimLeft(Tail(s), c) ELSE s

s3Path(path) == TrimLeft(TrimRight(root, "/") \o path, "/")

HasPrefix(s, p) == Len(p) <= Len(s) /\ SubSeq(s, 1, Len(p)) = p

\* Byte order of the characters used in keys.
Ord(c) ==
    CASE c = "-" -> 45
      [] c = "/" -> 47
      [] c = "a" -> 97
      [] c = "b" -> 98
      [] c = "c" -> 99
      [] c = "r" -> 114
      [] c = "x" -> 120
      [] c = "y" -> 121
      [] c = "z" -> 122

\* s sorts before t in the bucket's listing order (bytewise).
RECURSIVE KeyLess(_, _)
KeyLess(s, t) ==
    IF t = <<>> THEN FALSE
    ELSE IF s = <<>> THEN TRUE
    ELSE IF s[1] # t[1] THEN Ord(s[1]) < Ord(t[1])
    ELSE KeyLess(Tail(s), Tail(t))

\* The path WriteStream writes.
WPath == <<"/", "a">>

NoBucket == [k \in {} |-> <<>>]

Put(b, k, v) == [x \in DOMAIN b \cup {k} |-> IF x = k THEN v ELSE b[x]]

(***************************************************************************)
(* The buffer pool (s3.go:249-251, 755-763).  A buffer is [id, data].      *)
(***************************************************************************)
\* What pool.Get may return: a pooled buffer, or a new one when the pool is empty.
getbuf ==
    IF pool = {} THEN {[id |-> nextId, data |-> Zeros(ChunkSize)]} ELSE pool

\* The pool after b was taken from it.
Taken(b) == pool \ {b}

NextIdAfter(b) == IF b.id = nextId THEN nextId + 1 ELSE nextId

\* The buffer putbuf puts back: copy(p, d.zeros).
putbuf(b) == [id |-> b.id, data |-> Zeros(ChunkSize)]


(***************************************************************************)
(* The multipart session of the backend.  A part is [N, data]; the data    *)
(* stands for the ETag as well.                                            *)
(***************************************************************************)
NoErr == "nil"

\* The zero s3.Part, which PutPart returns beside an error.
ZeroPart == [N |-> 0, data |-> <<>>]

NoParts == [k \in {} |-> <<>>]

NoBuf == [id |-> 0, data |-> <<>>]

NoG == [pc |-> "none", bytesRead |-> 0, from |-> 0, buf |-> NoBuf, part |-> ZeroPart]

key == s3Path(WPath)

Exists(k) == k \in DOMAIN bucket

RECURSIVE Concat(_)
Concat(ps) == IF ps = <<>> THEN <<>> ELSE Head(ps).data \o Concat(Tail(ps))

\* The completion call accepts a part list only if every entry names a stored part.
ValidParts(ps) ==
    \A i \in 1..Len(ps) :
        /\ ps[i].N \in DOMAIN uploaded
        /\ uploaded[ps[i].N] = ps[i].data

(***************************************************************************)
(* WriteStream (s3.go:302-576).  The branch of lines 415-563 chosen from   *)
(* (currentLength, offset) is the sequence of statements it runs; every    *)
(* branch ends in the loop of lines 565-573.                               *)
(***************************************************************************)
St(op, a, b) == [op |-> op, a |-> a, b |-> b]

\* for { fromReader(0); if bytesRead < ChunkSize { break } }
Loop == <<St("fromReader", 0, 0), St("loopcheck", 0, 0)>>

Plan(cur, off) ==
    IF cur >= off
    THEN IF off < ChunkSize
         THEN <<St("fromSmallCurrent", off, 0), St("fromReader", off, 0),
                St("check", off, 0)>> \o Loop
         ELSE <<St("PutPartCopy", off, 1)>> \o Loop
    ELSE IF cur < ChunkSize
         THEN IF off < ChunkSize
              THEN <<St("fromSmallCurrent", cur, 0), St("fromZeroFillSmall", cur, off),
                     St("fromReader", off, 0), St("check", off, 0)>> \o Loop
              ELSE <<St("fromSmallCurrent", cur, 0),
                     St("fromZeroFillSmall", cur, ChunkSize),
                     St("PutPart", 0, 0),
                     St("fromZeroFillLarge", ChunkSize, off),
                     St("fromReader", off % ChunkSize, 0),
                     St("check", off % ChunkSize, 0)>> \o Loop
         ELSE <<St("PutPartCopy", cur, 0),
                St("fromZeroFillLarge", cur, off),
                St("fromReader", (off - cur) % ChunkSize, 0),
                St("check", (off - cur) % ChunkSize, 0)>> \o Loop

At(op) == pc = "run" /\ todo # <<>> /\ Head(todo).op = op

\* return n, e: the named results are set and the deferred function runs next.
Return(n, e) ==
    /\ totalRead' = n
    /\ err' = e
    /\ pc' = "defer"
    /\ todo' = <<>>

\* The count assigned instead of added: totalRead = int64(nn).
CountAssigned(tr, nn) == nn

\* totalRead += int64(nn)
Count(tr, nn) == tr + nn

\* dst with src copied in from position at + 1 on.
CopyAt(dst, at, bytes) ==
    [i \in 1..Len(dst) |->
        IF i > at /\ i <= at + Len(bytes) THEN bytes[i - at] ELSE dst[i]]

InitMulti ==
    /\ pc = "start"
    /\ \/ /\ faults' = faults \cup {"InitMulti"}
          /\ totalRead' = 0
          /\ err' = "Backend"
          /\ pc' = "done"
          /\ UNCHANGED <<multi, buf, pool, nextId, todo>>
       \/ /\ multi' = "open"
          /\ \E b \in getbuf :
                /\ buf' = b
                /\ pool' = Taken(b)
                /\ nextId' = NextIdAfter(b)
          /\ pc' = IF offset > 0 THEN "head" ELSE "run"
          /\ todo' = IF offset > 0 THEN <<>> ELSE Loop
          /\ UNCHANGED <<faults, totalRead, err>>
    /\ UNCHANGED <<argVars, deleteVars, queryVars, completeArg,
                   bucket, uploaded, completeCalls, abortCalls,
                   srcPos, partNumber, bytesRead, putErrChan, parts,
                   currentLength, from, total, current, g, releasing, srcFailed>>

\* d.Bucket.Head: a missing key counts as length 0.
HeadObject ==
    /\ pc = "head"
    /\ \/ /\ faults' = faults \cup {"Head"}
          /\ Return(0, "Backend")
          /\ UNCHANGED currentLength
       \/ /\ currentLength' = IF Exists(key) THEN Len(bucket[key]) ELSE 0
          /\ todo' = Plan(currentLength', offset)
          /\ pc' = "run"
          /\ UNCHANGED <<faults, totalRead, err>>
    /\ UNCHANGED <<argVars, deleteVars, queryVars, completeArg,
                   backendVars, poolVars, srcPos, partNumber,
                   bytesRead, putErrChan, parts, buf, from, total, current, g,
                   releasing, srcFailed>>

\* fromSmallCurrent: d.ReadStream(path, 0), then the read loop.
fromSmallCurrent ==
    /\ At("fromSmallCurrent")
    /\ \/ /\ ~Exists(key)
          /\ Return(totalRead, "PathNotFound")
          /\ UNCHANGED <<faults, current, bytesRead, total>>
       \/ /\ Exists(key)
          /\ faults' = faults \cup {"ReadStream"}
          /\ Return(totalRead, "Backend")
          /\ UNCHANGED <<current, bytesRead, total>>
       \/ /\ Exists(key)
          /\ current' = bucket[key]
          /\ bytesRead' = 0
          /\ total' = Head(todo).a
          /\ IF 0 < total'
             THEN pc' = "fsc_read" /\ todo' = todo
             ELSE pc' = "run" /\ todo' = Tail(todo)
          /\ UNCHANGED <<faults, totalRead, err>>
    /\ UNCHANGED <<argVars, deleteVars, queryVars, completeArg,
                   backendVars, poolVars, srcPos, partNumber,
                   putErrChan, parts, buf, currentLength, from, g, releasing, srcFailed>>

\* nn, err := current.Read(buf[bytesRead:total])
CurrentRead ==
    /\ pc = "fsc_read"
    /\ \E nn \in 0..Min(total - bytesRead, Len(current)) :
       \E e \in {"nil", "EOF", "fail"} :
          /\ e = "nil" => nn >= 1
          /\ e = "EOF" => nn = Len(current)
          /\ IF e = "fail"
             THEN /\ faults' = faults \cup {"ReadStream"}
                  /\ Return(totalRead, "Backend")
                  /\ UNCHANGED <<buf, bytesRead, current>>
             ELSE /\ buf' = [buf EXCEPT !.data = CopyAt(@, bytesRead, SubSeq(current, 1, nn))]
                  /\ bytesRead' = bytesRead + nn
                  /\ current' = SubSeq(current, nn + 1, Len(current))
                  /\ IF e = "nil" /\ bytesRead' < total
                     THEN pc' = "fsc_read" /\ todo' = todo
                     ELSE pc' = "run" /\ todo' = Tail(todo)
                  /\ UNCHANGED <<faults, totalRead, err>>
    /\ UNCHANGED <<argVars, deleteVars, queryVars, completeArg,
                   backendVars, poolVars, srcPos, partNumber,
                   putErrChan, parts, currentLength, from, total, g, releasing,
                   srcFailed>>

\* fromZeroFillSmall(from, to): buf[from:to] is read from d.zeros.
fromZeroFillSmall ==
    /\ At("fromZeroFillSmall")
    /\ LET f == Head(todo).a
           t == Head(todo).b
       IN  /\ bytesRead' = IF f < t THEN t - f ELSE 0
           /\ buf' = IF f < t
                     THEN [buf EXCEPT !.data = CopyAt(@, f, Zeros(t - f))]
                     ELSE buf
    /\ todo' = Tail(todo)
    /\ UNCHANGED <<argVars, deleteVars, queryVars, completeArg,
                   backendVars, poolVars, srcPos, pc, partNumber,
                   putErrChan, parts, totalRead, err, currentLength, from, total,
                   current, g, releasing, faults, srcFailed>>

\* part, err = multi.PutPart(int(partNumber), bytes.NewReader(buf)) (lines 515-521)
PutPartBuf ==
    /\ At("PutPart")
    /\ \/ /\ faults' = faults \cup {"PutPart"}
          /\ Return(totalRead, "Backend")
          /\ UNCHANGED <<uploaded, parts, partNumber>>
       \/ /\ uploaded' = Put(uploaded, partNumber, buf.data)
          /\ parts' = Append(parts, [N |-> partNumber, data |-> buf.data])
          /\ partNumber' = partNumber + 1
          /\ todo' = Tail(todo)
          /\ UNCHANGED <<faults, totalRead, err, pc>>
    /\ UNCHANGED <<argVars, deleteVars, queryVars, completeArg,
                   bucket, multi, completeCalls, abortCalls,
                   poolVars, srcPos, bytesRead, putErrChan, buf, currentLength, from,
                   total, current, g, releasing, srcFailed>>

\* fromZeroFillLarge(from, to): one all-zero part per whole chunk of the gap, then
\* fromZeroFillSmall(0, (to-from) % ChunkSize).
fromZeroFillLarge ==
    /\ At("fromZeroFillLarge")
    /\ LET f == Head(todo).a
           t == Head(todo).b
       IN  IF t - f >= ChunkSize
           THEN \/ /\ faults' = faults \cup {"PutPart"}
                   /\ Return(totalRead, "Backend")
                   /\ UNCHANGED <<uploaded, parts, partNumber>>
                \/ /\ uploaded' = Put(uploaded, partNumber, Zeros(ChunkSize))
                   /\ parts' = Append(parts, [N |-> partNumber, data |-> Zeros(ChunkSize)])
                   /\ partNumber' = partNumber + 1
                   /\ todo' = <<St("fromZeroFillLarge", f + ChunkSize, t)>> \o Tail(todo)
                   /\ UNCHANGED <<faults, totalRead, err, pc>>
           ELSE /\ todo' = <<St("fromZeroFillSmall", 0, (t - f) % ChunkSize)>> \o Tail(todo)
                /\ UNCHANGED <<faults, totalRead, err, pc, uploaded, parts, partNumber>>
    /\ UNCHANGED <<argVars, deleteVars, queryVars, completeArg,
                   bucket, multi, completeCalls, abortCalls,
                   poolVars, srcPos, bytesRead, putErrChan, buf, currentLength, from,
                   total, current, g, releasing, srcFailed>>

\* multi.PutPartCopy(partNumber, ...): the first a bytes of the object (lines 444-452),
\* or the whole object (lines 538-546).
PutPartCopy ==
    /\ At("PutPartCopy")
    /\ \/ /\ faults' = faults \cup {"PutPartCopy"}
          /\ Return(0, "Backend")
          /\ UNCHANGED <<uploaded, parts, partNumber>>
       \/ /\ Exists(key)
          /\ LET data == IF Head(todo).b = 1
                         THEN SubSeq(bucket[key], 1, Head(todo).a)
                         ELSE bucket[key]
             IN  /\ uploaded' = Put(uploaded, partNumber, data)
                 /\ parts' = Append(parts, [N |-> partNumber, data |-> data])
          /\ partNumber' = partNumber + 1
          /\ todo' = Tail(todo)
          /\ UNCHANGED <<faults, totalRead, err, pc>>
    /\ UNCHANGED <<argVars, deleteVars, queryVars, completeArg,
                   bucket, multi, completeCalls, abortCalls,
                   poolVars, srcPos, bytesRead, putErrChan, buf, currentLength, from,
                   total, current, g, releasing, srcFailed>>

\* fromReader(from): bytesRead = 0, then the read loop of lines 371-383.
fromReader ==
    /\ At("fromReader")
    /\ bytesRead' = 0
    /\ from' = Head(todo).a
    /\ pc' = IF from' + 0 < ChunkSize THEN "fr_read" ELSE "fr_wait"
    /\ UNCHANGED <<argVars, deleteVars, queryVars, completeArg,
                   backendVars, poolVars, srcPos, todo, partNumber,
                   putErrChan, parts, buf, totalRead, err, currentLength, total,
                   current, g, releasing, faults, srcFailed>>

\* nn, err := reader.Read(buf[from+int64(bytesRead):]): the reader delivers nn of its
\* remaining bytes, with nil, io.EOF (nothing remains) or an error of its own.
ReaderRead ==
    /\ pc = "fr_read"
    /\ \E nn \in 0..Min(ChunkSize - (from + bytesRead), Len(src) - srcPos) :
       \E e \in {"nil", "EOF", "fail"} :
          /\ e = "nil" => nn >= 1
          /\ e = "EOF" => nn = Len(src) - srcPos
          /\ srcPos' = srcPos + nn
          /\ buf' = [buf EXCEPT !.data =
                        CopyAt(@, from + bytesRead, SubSeq(src, srcPos + 1, srcPos + nn))]
          /\ bytesRead' = bytesRead + nn
          /\ IF e = "fail"
             THEN /\ srcFailed' = TRUE
                  /\ Return(Count(totalRead, nn), "Source")
             ELSE /\ totalRead' = Count(totalRead, nn)
                  /\ pc' = IF e = "nil" /\ from + bytesRead' < ChunkSize
                           THEN "fr_read" ELSE "fr_wait"
                  /\ UNCHANGED <<srcFailed, err, todo>>
    /\ UNCHANGED <<argVars, deleteVars, queryVars, completeArg,
                   backendVars, poolVars, partNumber, putErrChan,
                   parts, currentLength, from, total, current, g, releasing, faults>>

\* A goroutine stands at a send on the channel the variable putErrChan holds.
Sending == g.pc \in {"senderr", "sendnil"} /\ putErrChan = "chan"

Sent == IF g.pc = "senderr" THEN "Backend" ELSE NoErr

\* The sender after its send was received: on to the append, or only the deferred
\* putbuf is left.
AfterSend ==
    IF g.pc = "senderr"
    THEN g' = [g EXCEPT !.pc = "append"] /\ UNCHANGED releasing
    ELSE g' = NoG /\ releasing' = releasing \cup {g.buf}

\* if putErrChan == nil { putErrChan = make(chan error) }
MakeChan ==
    /\ pc = "fr_wait"
    /\ putErrChan = "nil"
    /\ putErrChan' = "chan"
    /\ pc' = "fr_go"
    /\ UNCHANGED <<argVars, deleteVars, queryVars, completeArg,
                   backendVars, poolVars, srcPos, todo, partNumber,
                   bytesRead, parts, buf, totalRead, err, currentLength, from, total,
                   current, g, releasing, faults, srcFailed>>

\* fromReader going on without the receive of lines 388-391.
RecvPreviousSkipped ==
    /\ pc = "fr_wait"
    /\ putErrChan # "nil"
    /\ pc' = "fr_go"
    /\ UNCHANGED <<argVars, deleteVars, queryVars, completeArg,
                   backendVars, poolVars, srcPos, todo, partNumber,
                   bytesRead, putErrChan, parts, buf, totalRead, err, currentLength,
                   from, total, current, g, releasing, faults, srcFailed>>

\* else: if putErr := <-putErrChan; putErr != nil { putErrChan = nil; return putErr }
RecvPrevious ==
    /\ pc = "fr_wait"
    /\ putErrChan # "nil"
    /\ Sending
    /\ AfterSend
    /\ IF Sent # NoErr
       THEN /\ putErrChan' = "nil"
            /\ Return(totalRead, Sent)
       ELSE /\ pc' = "fr_go"
            /\ UNCHANGED <<putErrChan, totalRead, err, todo>>
    /\ UNCHANGED <<argVars, deleteVars, queryVars, completeArg,
                   backendVars, poolVars, srcPos, partNumber,
                   bytesRead, parts, buf, currentLength, from, total, current, faults,
                   srcFailed>>

\* The go statement without buf = d.getbuf() after it (line 411 left out).
SpawnSameBuffer ==
    /\ pc = "fr_go"
    /\ g' = [pc |-> "put", bytesRead |-> bytesRead, from |-> from, buf |-> buf,
             part |-> ZeroPart]
    /\ pc' = "run"
    /\ todo' = Tail(todo)
    /\ UNCHANGED <<argVars, deleteVars, queryVars, completeArg,
                   backendVars, poolVars, srcPos, partNumber, bytesRead,
                   putErrChan, parts, buf, totalRead, err, currentLength, from, total,
                   current, releasing, faults, srcFailed>>

\* go func(bytesRead, from, buf) {...}(bytesRead, from, buf); buf = d.getbuf()
Spawn ==
    /\ pc = "fr_go"
    /\ g' = [pc |-> "put", bytesRead |-> bytesRead, from |-> from, buf |-> buf,
             part |-> ZeroPart]
    /\ \E b \in getbuf :
          /\ buf' = b
          /\ pool' = Taken(b)
          /\ nextId' = NextIdAfter(b)
    /\ pc' = "run"
    /\ todo' = Tail(todo)
    /\ UNCHANGED <<argVars, deleteVars, queryVars, completeArg,
                   backendVars, srcPos, partNumber, bytesRead,
                   putErrChan, parts, totalRead, err, currentLength, from, total,
                   current, releasing, faults, srcFailed>>

\* The goroutine uploading buf[0:bytesRead], the bytes before from left out.
GoPutPartWithoutFrom ==
    /\ g.pc = "put"
    /\ IF g.bytesRead > 0
       THEN LET data == SubSeq(g.buf.data, 1, g.bytesRead)
            IN  \/ /\ faults' = faults \cup {"PutPart"}
                   /\ g' = [g EXCEPT !.pc = "senderr", !.part = ZeroPart]
                   /\ UNCHANGED uploaded
                \/ /\ uploaded' = Put(uploaded, partNumber, data)
                   /\ g' = [g EXCEPT !.pc = "append",
                                     !.part = [N |-> partNumber, data |-> data]]
                   /\ UNCHANGED faults
       ELSE /\ g' = [g EXCEPT !.pc = "sendnil"]
            /\ UNCHANGED <<faults, uploaded>>
    /\ UNCHANGED <<argVars, deleteVars, queryVars, completeArg,
                   bucket, multi, completeCalls, abortCalls,
                   poolVars, srcPos, pc, todo, partNumber, bytesRead, putErrChan, parts,
                   buf, totalRead, err, currentLength, from, total, current, releasing,
                   srcFailed>>

\* The goroutine: if bytesRead > 0 { part, putErr := multi.PutPart(...) }
GoPutPart ==
    /\ g.pc = "put"
    /\ IF g.bytesRead > 0
       THEN LET data == SubSeq(g.buf.data, 1, g.bytesRead + g.from)
            IN  \/ /\ faults' = faults \cup {"PutPart"}
                   /\ g' = [g EXCEPT !.pc = "senderr", !.part = ZeroPart]
                   /\ UNCHANGED uploaded
                \/ /\ uploaded' = Put(uploaded, partNumber, data)
                   /\ g' = [g EXCEPT !.pc = "append",
                                     !.part = [N |-> partNumber, data |-> data]]
                   /\ UNCHANGED faults
       ELSE /\ g' = [g EXCEPT !.pc = "sendnil"]
            /\ UNCHANGED <<faults, uploaded>>
    /\ UNCHANGED <<argVars, deleteVars, queryVars, completeArg,
                   bucket, multi, completeCalls, abortCalls,
                   poolVars, srcPos, pc, todo, partNumber, bytesRead, putErrChan, parts,
                   buf, totalRead, err, currentLength, from, total, current, releasing,
                   srcFailed>>

\* The goroutine ending after the append, the send of line 408 left out.
GoAppendWithoutSend ==
    /\ g.pc = "append"
    /\ parts' = Append(parts, g.part)
    /\ partNumber' = partNumber + 1
    /\ g' = NoG
    /\ releasing' = releasing \cup {g.buf}
    /\ UNCHANGED <<argVars, deleteVars, queryVars, completeArg,
                   backendVars, poolVars, srcPos, pc, todo,
                   bytesRead, putErrChan, buf, totalRead, err, currentLength, from,
                   total, current, faults, srcFailed>>

\* The goroutine: parts = append(parts, part); partNumber++
GoAppend ==
    /\ g.pc = "append"
    /\ parts' = Append(parts, g.part)
    /\ partNumber' = partNumber + 1
    /\ g' = [g EXCEPT !.pc = "sendnil"]
    /\ UNCHANGED <<argVars, deleteVars, queryVars, completeArg,
                   backendVars, poolVars, srcPos, pc, todo,
                   bytesRead, putErrChan, buf, totalRead, err, currentLength, from,
                   total, current, releasing, faults, srcFailed>>

\* A finished goroutine's defer d.putbuf(buf).
GoPutbuf ==
    /\ \E b \in releasing :
          /\ releasing' = releasing \ {b}
          /\ pool' = pool \cup {putbuf(b)}
    /\ UNCHANGED <<argVars, deleteVars, queryVars, completeArg,
                   backendVars, nextId, srcPos, pc, todo,
                   partNumber, bytesRead, putErrChan, parts, buf, totalRead, err,
                   currentLength, from, total, current, g, faults, srcFailed>>

\* if totalRead+from < d.ChunkSize { return totalRead, nil } (lines 439, 502, 532, 557)
CheckShort ==
    /\ At("check")
    /\ IF totalRead + Head(todo).a < ChunkSize
       THEN Return(totalRead, NoErr)
       ELSE todo' = Tail(todo) /\ UNCHANGED <<pc, totalRead, err>>
    /\ UNCHANGED <<argVars, deleteVars, queryVars, completeArg,
                   backendVars, poolVars, srcPos, partNumber,
                   bytesRead, putErrChan, parts, buf, currentLength, from, total,
                   current, g, releasing, faults, srcFailed>>

\* if int64(bytesRead) < d.ChunkSize { break } ... return totalRead, nil
LoopCheck ==
    /\ At("loopcheck")
    /\ IF bytesRead < ChunkSize
       THEN Return(totalRead, NoErr)
       ELSE todo' = Loop /\ UNCHANGED <<pc, totalRead, err>>
    /\ UNCHANGED <<argVars, deleteVars, queryVars, completeArg,
                   backendVars, poolVars, srcPos, partNumber,
                   bytesRead, putErrChan, parts, buf, currentLength, from, total,
                   current, g, releasing, faults, srcFailed>>

\* The deferred function, lines 324-328: the last goroutine's result is awaited.
DeferWait ==
    /\ pc = "defer"
    /\ IF putErrChan = "nil"
       THEN UNCHANGED <<err, g, releasing>>
       ELSE /\ Sending
            /\ AfterSend
            /\ err' = IF Sent # NoErr THEN Sent ELSE err
    /\ pc' = "complete"
    /\ UNCHANGED <<argVars, deleteVars, queryVars, completeArg,
                   backendVars, poolVars, srcPos, todo, partNumber,
                   bytesRead, putErrChan, parts, buf, totalRead, currentLength, from,
                   total, current, faults, srcFailed>>

\* The deferred function, lines 330-341: multi.Complete(parts) when parts is not
\* empty, multi.Abort() when that fails, then d.putbuf(buf).
DeferComplete ==
    /\ pc = "complete"
    /\ IF Len(parts) > 0
       THEN /\ completeArg' = Append(completeArg, parts)
            /\ \/ /\ ValidParts(parts)
                  /\ bucket' = Put(bucket, key, Concat(parts))
                  /\ multi' = "completed"
                  /\ completeCalls' = completeCalls + 1
                  /\ UNCHANGED <<abortCalls, faults>>
               \/ /\ faults' = faults \cup {"Complete"}
                  /\ completeCalls' = completeCalls + 1
                  /\ abortCalls' = abortCalls + 1
                  /\ multi' = "aborted"
                  /\ UNCHANGED bucket
       ELSE UNCHANGED <<bucket, multi, completeCalls, abortCalls, faults, completeArg>>
    /\ pool' = pool \cup {putbuf(buf)}
    /\ buf' = NoBuf
    /\ pc' = "done"
    /\ UNCHANGED <<argVars, deleteVars, queryVars,
                   uploaded, nextId, srcPos, todo, partNumber,
                   bytesRead, putErrChan, parts, totalRead, err, currentLength, from,
                   total, current, g, releasing, srcFailed>>

(***************************************************************************)
(* One WriteStream call on WPath, from every bucket, offset and source     *)
(* within the bounds.                                                      *)
(***************************************************************************)
CallIdle ==
    /\ srcPos = 0
    /\ todo = <<>>
    /\ partNumber = 1
    /\ bytesRead = 0
    /\ putErrChan = "nil"
    /\ parts = <<>>
    /\ buf = NoBuf
    /\ totalRead = 0
    /\ err = NoErr
    /\ currentLength = 0
    /\ from = 0
    /\ total = 0
    /\ current = <<>>
    /\ g = NoG
    /\ releasing = {}
    /\ multi = "none"
    /\ uploaded = NoParts
    /\ completeCalls = 0
    /\ abortCalls = 0
    /\ pool = {}
    /\ nextId = 1
    /\ faults = {}
    /\ srcFailed = FALSE
    /\ completeArg = <<>>

DeleteIdle ==
    /\ dpath = <<>>
    /\ contents = <<>>
    /\ derr = NoErr

NoResponse == [Contents |-> <<>>, CommonPrefixes |-> <<>>, IsTruncated |-> FALSE,
               NextMarker |-> <<>>]

NoFileInfo == [err |-> NoErr, IsDir |-> FALSE, Size |-> 0]

StatIdle ==
    /\ spath = <<>>
    /\ sres = NoFileInfo

ListIdle ==
    /\ lpath = <<>>
    /\ listResponse = NoResponse
    /\ files = <<>>
    /\ directories = <<>>
    /\ lres = [err |-> NoErr, paths |-> <<>>]

MoveIdle ==
    /\ msrc = <<>>
    /\ mdst = <<>>
    /\ merr = NoErr

\* No Stat, List or Move call is in progress.
QueryIdle ==
    /\ spc = "off"
    /\ StatIdle
    /\ lpc = "off"
    /\ ListIdle
    /\ mpc = "off"
    /\ MoveIdle

Init ==
    /\ root = <<>>
    /\ bucket \in {NoBucket} \cup {Put(NoBucket, key, CurBytes(n)) : n \in 0..MaxCur}
    /\ bucket0 = bucket
    /\ offset \in 0..MaxOff
    /\ src \in {SrcBytes(n) : n \in 0..MaxSrc}
    /\ pc = "start"
    /\ CallIdle
    /\ dpc = "off"
    /\ DeleteIdle
    /\ QueryIdle

Next ==
    \/ InitMulti
    \/ HeadObject
    \/ fromSmallCurrent
    \/ CurrentRead
    \/ fromZeroFillSmall
    \/ PutPartBuf
    \/ fromZeroFillLarge
    \/ PutPartCopy
    \/ fromReader
    \/ ReaderRead
    \/ MakeChan
    \/ RecvPrevious
    \/ Spawn
    \/ GoPutPart
    \/ GoAppend
    \/ GoPutbuf
    \/ CheckShort
    \/ LoopCheck
    \/ DeferWait
    \/ DeferComplete

Spec == Init /\ [][Next]_vars

(***************************************************************************)
(* What the claims speak of.                                               *)
(***************************************************************************)
\* The WriteStream call has returned.
Done == pc = "done"

\* InitMulti succeeded: the call owns a multipart session.
Initiated == multi # "none"

\* The call returned a nil error and no backend call failed on the way.
Succeeded == Done /\ err = NoErr /\ faults = {}

\* GetContent(path) (lines 265-271): the content, or PathNotFound.
GetContent(path) ==
    IF Exists(s3Path(path))
    THEN [err |-> NoErr, content |-> bucket[s3Path(path)]]
    ELSE [err |-> "PathNotFound", content |-> <<>>]

\* An object existed at the path when the call started; b1 is its content.
Existed == key \in DOMAIN bucket0

b1 == bucket0[key]

(***************************************************************************)
(* C1: with every backend call and the reader succeeding, WriteStream(p,   *)
(* 0, s) followed by GetContent(p) returns exactly s, the empty s          *)
(* included.                                                               *)
(***************************************************************************)
C1_OffsetZeroRoundTrip ==
    (Done /\ offset = 0 /\ faults = {} /\ ~srcFailed)
        => GetContent(WPath) = [err |-> NoErr, content |-> src]

(***************************************************************************)
(* C2: the object held b1 of length L and 0 <= k <= L; after               *)
(* WriteStream(p, k, b2) succeeds the object equals b1[0:k] ++ b2.         *)
(***************************************************************************)
C2_ResumeWithinContent ==
    (Succeeded /\ Existed /\ offset <= Len(b1))
        => GetContent(WPath) = [err |-> NoErr, content |-> SubSeq(b1, 1, offset) \o src]

(***************************************************************************)
(* C3: the object held b1 of length L and k > L; after WriteStream(p, k,   *)
(* b2) succeeds the object equals b1 ++ zeros(k-L) ++ b2.                  *)
(***************************************************************************)
C3_GapZeroFill ==
    (Succeeded /\ Existed /\ offset > Len(b1))
        => GetContent(WPath) =
              [err |-> NoErr, content |-> b1 \o Zeros(offset - Len(b1)) \o src]

(***************************************************************************)
(* C4: WriteStream(p, k, s) with k > 0 where no object exists does not     *)
(* fail with NotFound, and on success the object equals zeros(k) ++ s.     *)
(***************************************************************************)
C4_MissingObjectIsLengthZero ==
    (Done /\ ~Existed /\ offset > 0)
        => /\ err # "PathNotFound"
           /\ Succeeded =>
                GetContent(WPath) = [err |-> NoErr, content |-> Zeros(offset) \o src]

(***************************************************************************)
(* C5: on every return of WriteStream after the multipart session was      *)
(* initiated, the returned count is exactly the number of bytes the reader *)
(* has delivered, also when an error is returned with it.                  *)
(***************************************************************************)
C5_CountIsBytesRead ==
    (pc \in {"defer", "complete", "done"} /\ Initiated) => totalRead = srcPos

\* The reader failed after delivering some but not all of its bytes, and the call
\* returned that count with the error.
C5_Witness ==
    /\ Done
    /\ srcFailed
    /\ err # NoErr
    /\ srcPos > 0
    /\ srcPos < Len(src)
    /\ totalRead = srcPos

(***************************************************************************)
(* C6: when WriteStream(p, off, src) returns (N, err) with err non-nil,    *)
(* each of the N counted source bytes is in the object readable at p, at   *)
(* its position off+i, so that a retry at off+N loses nothing.             *)
(***************************************************************************)
C6_CountedBytesAreStored ==
    (Done /\ Initiated /\ err # NoErr /\ totalRead > 0)
        => /\ Exists(key)
           /\ Len(bucket[key]) >= offset + totalRead
           /\ SubSeq(bucket[key], offset + 1, offset + totalRead)
                 = SubSeq(src, 1, totalRead)

(***************************************************************************)
(* C7: on every exit after InitMulti succeeded the session has been        *)
(* completed, or aborted exactly once, by the time the call returns.       *)
(***************************************************************************)
C7_SessionEndsWithCall ==
    (Done /\ Initiated)
        => \/ multi = "completed" /\ completeCalls = 1 /\ abortCalls = 0
           \/ multi = "aborted" /\ abortCalls = 1

(***************************************************************************)
(* C8: when a step of WriteStream fails the call aborts the session and    *)
(* issues no completion call, so the bucket is as it was; a completion     *)
(* call is issued only by a call that succeeds.                            *)
(***************************************************************************)
C8_CompleteOnlyOnSuccess ==
    (Done /\ Initiated /\ err # NoErr)
        => /\ completeCalls = 0
           /\ abortCalls = 1
           /\ bucket = bucket0

(***************************************************************************)
(* C9: every backend failure during WriteStream is returned: if a backend  *)
(* call failed, the completion call and a background part upload included, *)
(* the call returns a non-nil error.                                       *)
(***************************************************************************)
C9_FailuresAreReturned ==
    (Done /\ faults # {}) => err # NoErr

(***************************************************************************)
(* Delete (s3.go:670-695) and Stat (s3.go:580-610) over a bucket of        *)
(* several keys.                                                           *)
(***************************************************************************)
\* The paths objects are stored at and operations are called with.
Paths ==
    { <<"/", "a">>,
      <<"/", "a", "/", "x">>,
      <<"/", "a", "/", "y">>,
      <<"/", "a", "/", "b", "/", "y">>,
      <<"/", "a", "/", "b", "/", "z">>,
      <<"/", "a", "/", "c">>,
      <<"/", "a", "b">>,
      <<"/", "a", "-", "b">>,
      <<"/", "c">> }

\* The values of d.RootDirectory.
Roots == { <<>>, <<"/">>, <<"/", "r", "/">> }

\* The content stored at path p: its bytes tell the paths apart, and so do the sizes
\* of paths of different lengths.
PathBytes(p) == [i \in 1..Len(p) |-> Ord(p[i])]

\* The buckets that hold PathBytes(p) at the key of each path p of some set of paths.
Buckets ==
    { [k \in {s3Path(p) : p \in S} |->
          PathBytes(CHOOSE p \in S : s3Path(p) = k)] : S \in SUBSET Paths }

RECURSIVE SortedKeys(_)
SortedKeys(S) ==
    IF S = {} THEN <<>>
    ELSE LET m == CHOOSE k \in S : \A j \in S \ {k} : KeyLess(k, j)
         IN  <<m>> \o SortedKeys(S \ {m})

\* listResponse.Contents of d.Bucket.List(prefix, "", "", max): the first max keys
\* that begin with prefix, in the bucket's order.
ListKeys(prefix, max) ==
    LET all == SortedKeys({k \in DOMAIN bucket : HasPrefix(k, prefix)})
    IN  SubSeq(all, 1, Min(max, Len(all)))

Range(q) == {q[i] : i \in 1..Len(q)}

\* Stat(path) with its list call succeeding.  With an empty delimiter the response
\* holds no common prefixes.
Stat(path) ==
    LET c == ListKeys(s3Path(path), 1)
    IN  IF Len(c) = 1
        THEN IF c[1] # s3Path(path)
             THEN [err |-> NoErr, IsDir |-> TRUE, Size |-> 0]
             ELSE [err |-> NoErr, IsDir |-> FALSE, Size |-> Len(bucket[c[1]])]
        ELSE [err |-> "PathNotFound", IsDir |-> FALSE, Size |-> 0]

\* The path Delete is called with: Move's sourcePath when Move calls it (line 666).
DeleteArgs == IF mpc = "delete" THEN {msrc} ELSE Paths

\* Lines 671-674: the first list call.
DeleteList ==
    /\ dpc = "idle"
    /\ \E p \in DeleteArgs :
          /\ dpath' = p
          /\ \/ /\ faults' = faults \cup {"List"}
                /\ derr' = "PathNotFound"
                /\ dpc' = "done"
                /\ UNCHANGED contents
             \/ /\ contents' = ListKeys(s3Path(p), listMax)
                /\ IF Len(contents') = 0
                   THEN derr' = "PathNotFound" /\ dpc' = "done"
                   ELSE derr' = derr /\ dpc' = "delmulti"
                /\ UNCHANGED faults
    /\ UNCHANGED <<argVars, queryVars, completeArg,
                   backendVars, poolVars, srcPos, pc, todo, partNumber,
                   bytesRead, putErrChan, parts, buf, totalRead, err, currentLength,
                   from, total, current, g, releasing, srcFailed>>

\* Lines 678-686: d.Bucket.DelMulti of the page; its error ends the call with nil.
DelMulti ==
    /\ dpc = "delmulti"
    /\ \/ /\ faults' = faults \cup {"DelMulti"}
          /\ derr' = NoErr
          /\ dpc' = "done"
          /\ UNCHANGED bucket
       \/ /\ bucket' = [k \in DOMAIN bucket \ Range(contents) |-> bucket[k]]
          /\ dpc' = "relist"
          /\ UNCHANGED <<faults, derr>>
    /\ UNCHANGED <<argVars, queryVars, completeArg,
                   multi, uploaded, completeCalls,
                   abortCalls, poolVars, srcPos, pc, todo, partNumber, bytesRead,
                   putErrChan, parts, buf, totalRead, err, currentLength, from, total,
                   current, g, releasing, srcFailed, dpath, contents>>

\* Delete without its loop: ok after the first page, with no list call again.
DeleteOnePage ==
    /\ dpc = "relist"
    /\ derr' = NoErr
    /\ dpc' = "done"
    /\ UNCHANGED <<argVars, queryVars, completeArg,
                   backendVars, poolVars, srcPos, pc, todo, partNumber,
                   bytesRead, putErrChan, parts, buf, totalRead, err, currentLength,
                   from, total, current, g, releasing, srcFailed, dpath, contents,
                   faults>>

\* Lines 688-694: the list call again; the loop ends on an empty page.
DeleteRelist ==
    /\ dpc = "relist"
    /\ \/ /\ faults' = faults \cup {"List"}
          /\ derr' = "Backend"
          /\ dpc' = "done"
          /\ UNCHANGED contents
       \/ /\ contents' = ListKeys(s3Path(dpath), listMax)
          /\ IF Len(contents') > 0
             THEN derr' = derr /\ dpc' = "delmulti"
             ELSE derr' = NoErr /\ dpc' = "done"
          /\ UNCHANGED faults
    /\ UNCHANGED <<argVars, queryVars, completeArg,
                   backendVars, poolVars, srcPos, pc, todo, partNumber,
                   bytesRead, putErrChan, parts, buf, totalRead, err, currentLength,
                   from, total, current, g, releasing, srcFailed, dpath>>

InitDelete ==
    /\ root \in Roots
    /\ bucket \in Buckets
    /\ bucket0 = bucket
    /\ offset = 0
    /\ src = <<>>
    /\ pc = "off"
    /\ CallIdle
    /\ dpc = "idle"
    /\ DeleteIdle
    /\ QueryIdle

NextDelete ==
    \/ DeleteList
    \/ DelMulti
    \/ DeleteRelist

SpecDelete == InitDelete /\ [][NextDelete]_vars

\* The keys of the bucket that Delete's list call matched when the call started.
Matched0 == {k \in DOMAIN bucket0 : HasPrefix(k, s3Path(dpath))}

\* The paths at dpath or under dpath/.
Under(path) ==
    {p \in Paths : p = path \/ HasPrefix(p, path \o <<"/">>)}

(***************************************************************************)
(* C10: with every backend call succeeding, after Delete(path) returns ok  *)
(* no object remains at path or under path/, however many list pages they  *)
(* filled, and Stat on each of them returns PathNotFound; Delete on a path *)
(* whose key the list call matches no object for returns PathNotFound.     *)
(***************************************************************************)
C10_DeleteRecursion ==
    (dpc = "done" /\ faults = {})
        => /\ derr = NoErr =>
                \A p \in Under(dpath) :
                    /\ ~Exists(s3Path(p))
                    /\ Stat(p).err = "PathNotFound"
           /\ Matched0 = {} => derr = "PathNotFound"

\* Delete returned ok after removing more objects than one page holds, objects under
\* path/ among them.
C10_Witness ==
    /\ dpc = "done"
    /\ faults = {}
    /\ derr = NoErr
    /\ Cardinality(Matched0) > listMax
    /\ \E p \in Under(dpath) : p # dpath /\ s3Path(p) \in DOMAIN bucket0
    /\ \A p \in Under(dpath) : ~Exists(s3Path(p))

\* Delete of a path nothing is stored at or under returned PathNotFound.
C10_WitnessNotFound ==
    /\ dpc = "done"
    /\ faults = {}
    /\ Matched0 = {}
    /\ derr = "PathNotFound"

\* Key k is the key of path, or lies under path/.
InTree(k, path) == k = s3Path(path) \/ HasPrefix(k, s3Path(path) \o <<"/">>)

(***************************************************************************)
(* C11: Delete(path) removes only the object whose key is path and the     *)
(* objects whose key is prefixed by path/; every other object, a sibling   *)
(* whose key only begins with the same characters included, keeps its      *)
(* content; and Delete(path) returns PathNotFound when no object is at     *)
(* path or under path/.                                                    *)
(***************************************************************************)
C11_DeleteFrame ==
    dpc # "idle"
        => /\ \A k \in DOMAIN bucket0 :
                ~InTree(k, dpath) => (Exists(k) /\ bucket[k] = bucket0[k])
           /\ (dpc = "done" /\ faults = {}
                 /\ \A k \in DOMAIN bucket0 : ~InTree(k, dpath))
                 => derr = "PathNotFound"

(***************************************************************************)
(* C12: Delete returns the error of a failed backend call: the error of    *)
(* the bulk delete of a page, and the error of the first list call as a    *)
(* backend error, not as PathNotFound; it never returns ok while objects   *)
(* it listed are still there.                                              *)
(***************************************************************************)
C12_DeletePropagatesFailures ==
    dpc = "done"
        => /\ faults # {} => derr = "Backend"
           /\ derr = NoErr => \A k \in Range(contents) : ~Exists(k)

(***************************************************************************)
(* Stat (s3.go:580-610).                                                   *)
(***************************************************************************)
\* A bucket with some of the paths stored, and no WriteStream or Delete call.
Stored ==
    /\ root \in Roots
    /\ bucket \in Buckets
    /\ bucket0 = bucket
    /\ offset = 0
    /\ src = <<>>
    /\ pc = "off"
    /\ CallIdle
    /\ DeleteIdle

\* The whole call: the list call fails and its error is returned, or the answer is
\* read off the one key listed.
StatCall ==
    /\ spc = "idle"
    /\ \E p \in Paths :
          /\ spath' = p
          /\ \/ /\ faults' = faults \cup {"List"}
                /\ sres' = [err |-> "Backend", IsDir |-> FALSE, Size |-> 0]
             \/ /\ sres' = Stat(p)
                /\ UNCHANGED faults
    /\ spc' = "done"
    /\ UNCHANGED <<argVars, deleteVars, listVars, moveVars, writeVars, backendVars,
                   poolVars>>

InitStat ==
    /\ Stored
    /\ dpc = "off"
    /\ spc = "idle"
    /\ StatIdle
    /\ lpc = "off"
    /\ ListIdle
    /\ mpc = "off"
    /\ MoveIdle

NextStat == StatCall

SpecStat == InitStat /\ [][NextStat]_vars

\* Some object lies under path/.
HasDescendant(path) ==
    \E k \in DOMAIN bucket : HasPrefix(k, s3Path(path) \o <<"/">>)

(***************************************************************************)
(* C13: with the list call succeeding, Stat(path) returns IsDir = false    *)
(* and the object's size when an object has exactly the key of path,       *)
(* IsDir = true when no object has that key and some object lies under     *)
(* path/, and PathNotFound when there is neither, siblings such as /ab for *)
(* /a notwithstanding.                                                     *)
(***************************************************************************)
C13_StatDisambiguation ==
    (spc = "done" /\ faults = {})
        => IF Exists(s3Path(spath))
           THEN sres = [err |-> NoErr, IsDir |-> FALSE,
                        Size |-> Len(bucket[s3Path(spath)])]
           ELSE IF HasDescendant(spath)
           THEN sres.err = NoErr /\ sres.IsDir
           ELSE sres.err = "PathNotFound"

(***************************************************************************)
(* List (s3.go:613-654).  The backend's list call with the delimiter "/"   *)
(* rolls the keys that have a "/" after the prefix up into one common      *)
(* prefix each; keys and common prefixes come in one bytewise order, each  *)
(* counts as one entry of a page, and a page starts after the marker.      *)
(***************************************************************************)
\* Index of the first "/" of s, 0 when it has none.
RECURSIVE IndexSlash(_, _)
IndexSlash(s, i) ==
    IF i > Len(s) THEN 0
    ELSE IF s[i] = "/" THEN i
    ELSE IndexSlash(s, i + 1)

\* The entry key k is listed as under prefix: the key itself, or its common prefix.
EntryOf(k, prefix) ==
    LET rest == SubSeq(k, Len(prefix) + 1, Len(k))
        i    == IndexSlash(rest, 1)
    IN  IF i = 0 THEN k ELSE prefix \o SubSeq(rest, 1, i)

IsCommonPrefix(e) == e # <<>> /\ e[Len(e)] = "/"

\* The common prefixes (dirs) or the keys (not dirs) of q, in q's order.
RECURSIVE SelectKind(_, _)
SelectKind(q, dirs) ==
    IF q = <<>> THEN <<>>
    ELSE (IF IsCommonPrefix(Head(q)) = dirs THEN <<Head(q)>> ELSE <<>>)
            \o SelectKind(Tail(q), dirs)

\* d.Bucket.List(prefix, "/", marker, max).
BucketList(prefix, marker, max) ==
    LET all   == {EntryOf(k, prefix) : k \in {j \in DOMAIN bucket : HasPrefix(j, prefix)}}
        after == SortedKeys({e \in all : KeyLess(marker, e)})
        page  == SubSeq(after, 1, Min(max, Len(after)))
        trunc == Len(after) > max
    IN  [Contents       |-> SelectKind(page, FALSE),
         CommonPrefixes |-> SelectKind(page, TRUE),
         IsTruncated    |-> trunc,
         NextMarker     |-> IF trunc THEN page[Len(page)] ELSE <<>>]

\* Index of the first occurrence of old in s at or after i, 0 when there is none.
RECURSIVE IndexOf(_, _, _)
IndexOf(s, old, i) ==
    IF i + Len(old) - 1 > Len(s) THEN 0
    ELSE IF SubSeq(s, i, i + Len(old) - 1) = old THEN i
    ELSE IndexOf(s, old, i + 1)

\* strings.Replace(s, old, new, 1).
Replace(s, old, new) ==
    LET i == IndexOf(s, old, 1)
    IN  IF i = 0 THEN s
        ELSE SubSeq(s, 1, i - 1) \o new \o SubSeq(s, i + Len(old), Len(s))

\* Lines 614-616.
DirPath(path) ==
    IF path # <<"/">> /\ path[Len(path)] # "/" THEN path \o <<"/">> ELSE path

\* Lines 621-624.
prefix == IF s3Path(<<>>) = <<>> THEN <<"/">> ELSE <<>>

\* Lines 635-637.
FilesOf(r) ==
    [i \in 1..Len(r.Contents) |-> Replace(r.Contents[i], s3Path(<<>>), prefix)]

\* Lines 639-641.
DirectoriesOf(r) ==
    [i \in 1..Len(r.CommonPrefixes) |->
        Replace(SubSeq(r.CommonPrefixes[i], 1, Len(r.CommonPrefixes[i]) - 1),
                s3Path(<<>>), prefix)]

\* The paths List is called with.
ListPaths ==
    { <<"/">>, <<"/", "a">>, <<"/", "a", "/">>, <<"/", "a", "/", "b">>, <<"/", "c">> }

\* Lines 613-632: the first list call.
ListFirst ==
    /\ lpc = "idle"
    /\ \E p \in ListPaths :
          /\ lpath' = DirPath(p)
          /\ \/ /\ faults' = faults \cup {"List"}
                /\ lres' = [err |-> "Backend", paths |-> <<>>]
                /\ lpc' = "done"
                /\ UNCHANGED listResponse
             \/ /\ listResponse' = BucketList(s3Path(DirPath(p)), <<>>, listMax)
                /\ lpc' = "loop"
                /\ UNCHANGED <<faults, lres>>
    /\ UNCHANGED <<files, directories>>
    /\ UNCHANGED <<argVars, deleteVars, statVars, moveVars, writeVars, backendVars,
                   poolVars>>

\* Lines 634-653: one turn of the loop, and the return after the last page.
ListPage ==
    /\ lpc = "loop"
    /\ files' = files \o FilesOf(listResponse)
    /\ directories' = directories \o DirectoriesOf(listResponse)
    /\ IF listResponse.IsTruncated
       THEN \/ /\ faults' = faults \cup {"List"}
               /\ lres' = [err |-> "Backend", paths |-> <<>>]
               /\ lpc' = "done"
               /\ UNCHANGED listResponse
            \/ /\ listResponse' =
                     BucketList(s3Path(lpath), listResponse.NextMarker, listMax)
               /\ UNCHANGED <<lpc, lres, faults>>
       ELSE /\ lres' = [err |-> NoErr, paths |-> files' \o directories']
            /\ lpc' = "done"
            /\ UNCHANGED <<listResponse, faults>>
    /\ UNCHANGED lpath
    /\ UNCHANGED <<argVars, deleteVars, statVars, moveVars, writeVars, backendVars,
                   poolVars>>

InitList ==
    /\ Stored
    /\ dpc = "off"
    /\ spc = "off"
    /\ StatIdle
    /\ lpc = "idle"
    /\ ListIdle
    /\ mpc = "off"
    /\ MoveIdle

NextList ==
    \/ ListFirst
    \/ ListPage

SpecList == InitList /\ [][NextList]_vars

\* The name of the immediate child of the directory with key pre that key k is or
\* lies under.
ChildName(k, pre) ==
    LET rest == SubSeq(k, Len(pre) + 1, Len(k))
        i    == IndexSlash(rest, 1)
    IN  IF i = 0 THEN rest ELSE SubSeq(rest, 1, i - 1)

\* The objects stored directly in the directory lpath, as paths.
ChildFiles ==
    { lpath \o ChildName(k, s3Path(lpath)) :
        k \in {j \in DOMAIN bucket :
                 /\ HasPrefix(j, s3Path(lpath))
                 /\ IndexSlash(SubSeq(j, Len(s3Path(lpath)) + 1, Len(j)), 1) = 0} }

\* The subdirectories of the directory lpath, as paths.
ChildDirs ==
    { lpath \o ChildName(k, s3Path(lpath)) :
        k \in {j \in DOMAIN bucket :
                 /\ HasPrefix(j, s3Path(lpath))
                 /\ IndexSlash(SubSeq(j, Len(s3Path(lpath)) + 1, Len(j)), 1) > 0} }

(***************************************************************************)
(* C14: with every list call succeeding, List(path) returns each immediate *)
(* child of path exactly once, the files before the subdirectories, no     *)
(* child missing or twice and no deeper descendant among them, however     *)
(* many pages the children fill; and the loop goes on exactly while the    *)
(* last page is reported truncated.                                        *)
(***************************************************************************)
C14_ListPagination ==
    /\ (lpc = "done" /\ lres.err = NoErr)
          => /\ ~listResponse.IsTruncated
             /\ Range(lres.paths) = ChildFiles \cup ChildDirs
             /\ Len(lres.paths) = Cardinality(ChildFiles \cup ChildDirs)
             /\ \A i \in 1..Len(lres.paths) :
                   IF i <= Cardinality(ChildFiles)
                   THEN lres.paths[i] \in ChildFiles
                   ELSE lres.paths[i] \in ChildDirs
    /\ (lpc = "done" /\ faults = {}) => lres.err = NoErr

(***************************************************************************)
(* Move (s3.go:656-667): a server-side copy, then Delete of the source.    *)
(***************************************************************************)
\* The (sourcePath, destPath) pairs Move is called with.
MovePairs ==
    { << <<"/", "a">>, <<"/", "a", "b">> >>,
      << <<"/", "a">>, <<"/", "c">> >>,
      << <<"/", "a", "/", "x">>, <<"/", "c">> >>,
      << <<"/", "a", "/", "x">>, <<"/", "a", "/", "y">> >>,
      << <<"/", "c">>, <<"/", "a">> >> }

\* Lines 660-664: PutCopy.  Without the source object the backend answers NoSuchKey,
\* which parseError turns into PathNotFound.
MoveCopy ==
    /\ mpc = "idle"
    /\ \E pr \in MovePairs :
          /\ msrc' = pr[1]
          /\ mdst' = pr[2]
          /\ \/ /\ faults' = faults \cup {"PutCopy"}
                /\ merr' = "Backend"
                /\ mpc' = "done"
                /\ UNCHANGED <<bucket, dpc>>
             \/ /\ ~Exists(s3Path(pr[1]))
                /\ merr' = "PathNotFound"
                /\ mpc' = "done"
                /\ UNCHANGED <<bucket, dpc, faults>>
             \/ /\ Exists(s3Path(pr[1]))
                /\ bucket' = Put(bucket, s3Path(pr[2]), bucket[s3Path(pr[1])])
                /\ mpc' = "delete"
                /\ dpc' = "idle"
                /\ UNCHANGED <<merr, faults>>
    /\ UNCHANGED <<argVars, dpath, contents, derr, statVars, listVars, writeVars,
                   multi, uploaded, completeCalls, abortCalls, poolVars>>

\* Line 666: Move returns what Delete(sourcePath) returned.
MoveReturn ==
    /\ mpc = "delete"
    /\ dpc = "done"
    /\ merr' = derr
    /\ mpc' = "done"
    /\ UNCHANGED <<msrc, mdst, faults>>
    /\ UNCHANGED <<argVars, deleteVars, statVars, listVars, writeVars, backendVars,
                   poolVars>>

InitMove ==
    /\ Stored
    /\ dpc = "off"
    /\ spc = "off"
    /\ StatIdle
    /\ lpc = "off"
    /\ ListIdle
    /\ mpc = "idle"
    /\ MoveIdle

NextMove ==
    \/ MoveCopy
    \/ DeleteList
    \/ DelMulti
    \/ DeleteRelist
    \/ MoveReturn

SpecMove == InitMove /\ [][NextMove]_vars

(***************************************************************************)
(* C15: when the copy step of Move fails, Move returns the error, no       *)
(* delete call is issued and the bucket is as it was; when Move(src, dst)  *)
(* returns ok, the destination holds the content the source had and no     *)
(* object is left at the source key.                                       *)
(***************************************************************************)
C15_MoveCopyThenDelete ==
    mpc = "done"
        => /\ "PutCopy" \in faults
                => (merr # NoErr /\ bucket = bucket0 /\ dpc = "off")
           /\ merr = NoErr
                => /\ Exists(s3Path(mdst))
                   /\ bucket[s3Path(mdst)] = bucket0[s3Path(msrc)]
                   /\ ~Exists(s3Path(msrc))

(***************************************************************************)
(* The background upload of WriteStream (s3.go:385-413, 323-342).          *)
(***************************************************************************)
\* The largest part number stored in the session, 0 when there is none.
LastUploaded ==
    IF DOMAIN uploaded = {} THEN 0
    ELSE CHOOSE n \in DOMAIN uploaded : \A m \in DOMAIN uploaded : m <= n

(***************************************************************************)
(* C16: at most one background part upload is in flight: when fromReader   *)
(* starts the goroutine for the next buffer, no earlier goroutine is left  *)
(* that has not delivered its result, and no part upload has failed.       *)
(***************************************************************************)
C16_SingleOutstandingUpload ==
    pc = "fr_go" => (g = NoG /\ "PutPart" \notin faults)

\* fromReader is about to start a goroutine after it received the result of the
\* one before, whose part is in the list.
C16_Witness ==
    /\ pc = "fr_go"
    /\ offset = 0
    /\ Len(parts) >= 1
    /\ g = NoG

(***************************************************************************)
(* C17: every part stored in the multipart session other than the one      *)
(* with the highest number, uploaded buffer, all-zero part or copied       *)
(* range alike, has at least ChunkSize bytes.                              *)
(***************************************************************************)
C17_MinimumPartSize ==
    \A n \in DOMAIN uploaded : n < LastUploaded => Len(uploaded[n]) >= ChunkSize

\* The call returned after parts from a copy or zero fill and from the reader, the
\* last of them shorter than ChunkSize.
C17_Witness ==
    /\ Done
    /\ offset >= ChunkSize
    /\ LastUploaded >= 3
    /\ Len(uploaded[LastUploaded]) < ChunkSize
    /\ Len(uploaded[LastUploaded]) > 0

\* The part numbers of a part list, in its order.
Numbers(ps) == [i \in 1..Len(ps) |-> ps[i].N]

(***************************************************************************)
(* C18: the parts stored in the session are numbered 1, 2, 3, ... without  *)
(* a gap, and every part list passed to multi.Complete holds exactly the   *)
(* parts whose upload or copy succeeded, in ascending order of their       *)
(* numbers, with no entry for a part whose upload failed.                  *)
(***************************************************************************)
C18_PartNumbering ==
    /\ DOMAIN uploaded = 1..LastUploaded
    /\ \A c \in 1..Len(completeArg) :
          /\ Numbers(completeArg[c]) = [i \in 1..LastUploaded |-> i]
          /\ ValidParts(completeArg[c])

\* The calling goroutine is at a step that reads or writes parts or partNumber.
MainAccess ==
    \/ pc = "complete"
    \/ At("PutPart")
    \/ At("PutPartCopy")
    \/ At("fromZeroFillLarge")

\* The background goroutine is at its write of parts and partNumber (lines 405-406).
BackgroundWrite == g.pc = "append"

(***************************************************************************)
(* C19: no access of the calling goroutine to parts or partNumber, by a    *)
(* part-producing step or by the deferred completion step, is concurrent   *)
(* with the background goroutine's write to them.                          *)
(***************************************************************************)
C19_NoConcurrentAccess == ~(MainAccess /\ BackgroundWrite)

\* The buffers the pool holds, by identity.
Pooled == {b.id : b \in pool}

\* The background goroutine stands at a send nobody will receive: the caller has set
\* putErrChan to nil or has returned.
Blocked ==
    /\ g.pc \in {"senderr", "sendnil"}
    /\ putErrChan = "nil" \/ Done

(***************************************************************************)
(* C20: every buffer taken from the pool comes back once and zero-filled:  *)
(* the pool holds only zero-filled buffers, none that the call or its      *)
(* goroutine still uses, and no goroutine stays blocked with its buffer    *)
(* after its upload has finished, failed uploads included.                 *)
(***************************************************************************)
C20_BufferLifetime ==
    /\ \A b \in pool : b.data = Zeros(ChunkSize)
    /\ buf # NoBuf => buf.id \notin Pooled
    /\ g # NoG => g.buf.id \notin Pooled
    /\ \A b \in releasing : b.id \notin Pooled
    /\ ~Blocked

(***************************************************************************)
(* Termination of WriteStream.  Every backend call and every read of the   *)
(* source returns, and the scheduler runs each goroutine that can take a   *)
(* step: the steps of the calling goroutine and those of the background    *)
(* goroutine are each weakly fair.                                         *)
(***************************************************************************)
\* A step of the goroutine that called WriteStream, its receives included.
CallerStep ==
    \/ InitMulti
    \/ HeadObject
    \/ fromSmallCurrent
    \/ CurrentRead
    \/ fromZeroFillSmall
    \/ PutPartBuf
    \/ fromZeroFillLarge
    \/ PutPartCopy
    \/ fromReader
    \/ ReaderRead
    \/ MakeChan
    \/ RecvPrevious
    \/ Spawn
    \/ CheckShort
    \/ LoopCheck
    \/ DeferWait
    \/ DeferComplete

\* A step of the background goroutine.
BackgroundStep ==
    \/ GoPutPart
    \/ GoAppend
    \/ GoPutbuf

SpecLive ==
    /\ Init
    /\ [][Next]_vars
    /\ WF_vars(CallerStep)
    /\ WF_vars(BackgroundStep)

(***************************************************************************)
(* C21: with every backend call and source read returning, for every       *)
(* pattern of upload successes and failures and every interleaving, the    *)
(* WriteStream call eventually returns: each receive on putErrChan, in     *)
(* fromReader and in the deferred function, is eventually answered.        *)
(***************************************************************************)
C21_EventuallyReturns == <>Done

\* The call returned after the deferred function received the error of a failed
\* background upload.
C21_Witness ==
    /\ Done
    /\ "PutPart" \in faults
    /\ putErrChan = "chan"
    /\ g # NoG

\* The call returned after fromReader received the results of two uploads and the
\* deferred function that of the last.
C21_WitnessAnswered ==
    /\ Done
    /\ faults = {}
    /\ offset = 0
    /\ Len(parts) >= 3
    /\ g = NoG

\* The background goroutine's PutPart is reading its buffer.
Uploading == g.pc = "put"

(***************************************************************************)
(* C22: while a background upload reads its buffer, that buffer is not the *)
(* one the caller fills from the source or zero-fills, it is not in the    *)
(* pool to be issued again, and it is not being zero-filled by a putbuf:   *)
(* the caller always fills another buffer than the one in flight.          *)
(***************************************************************************)
C22_BufferExclusivity ==
    Uploading
        => /\ buf.id # g.buf.id
           /\ g.buf.id \notin Pooled
           /\ \A b \in releasing : b.id # g.buf.id

\* The caller has read source bytes into a buffer the pool issued again, while the
\* upload of the buffer before is still reading.
C22_Witness ==
    /\ Uploading
    /\ pc = "fr_read"
    /\ bytesRead >= 1
    /\ buf.id < g.buf.id
    /\ buf.data # Zeros(ChunkSize)

=============================================================================
